---- MODULE Spec2Model ----
(***************************************************************************)
(* SSDF evidence pipeline: the collector (ssdf-evidence-collector.py),     *)
(* the package verifier (verify-evidence.py) and the manifest generator    *)
(* (ssdf/evidence/manifest-generator.py).                                  *)
(*                                                                         *)
(* Files are modelled by their content: [bytes |-> n] is an opaque byte    *)
(* string, [json |-> d] a JSON document.  SHA-256 is modelled as an        *)
(* injective tag over the content (no collisions).  Percentages are kept   *)
(* in hundredths (33.33 is 3333).                                          *)
(***************************************************************************)
EXTENDS Integers, Sequences, FiniteSets, TLC

VARIABLES
    pc,                 \* position of collect_all
    temp_dir,           \* collector working directory: [exists, files]
    evidence_files,     \* SSMFEvidenceCollector.evidence_files
    practices_covered,  \* SSMFEvidenceCollector.practices_covered
    attestations,       \* SSMFEvidenceCollector.attestations
    manifest,           \* the dict create_manifest returned (<<>> before)
    gcs,                \* uploaded packages: <<>> or <<tar>>
    tamper,             \* how the stored package was modified after upload
    vpc,                \* position of the verifier
    config,             \* EvidenceVerifier.config
    result,             \* outcome of verify_evidence_package
    manifest_dir,       \* ManifestGenerator.manifest_dir: the files in it
    generated,          \* the manifest dict the caller of the generator holds
    saves,              \* calls of save_manifest so far
    edited,             \* the stored manifest was changed after the last save
    verify_result,      \* what verify_manifest returned (<<>> before)
    cosign_state,       \* state of the cosign tool on the verifier's host
    runs,               \* one entry per collect_all call started on the
                        \* collector object: the lengths of its three
                        \* lists when the call began
    verifiers,          \* self.temp_dir of each EvidenceVerifier of a
                        \* verification service
    calls,              \* the verify_evidence_package calls of the service:
                        \* verifier, archive, outcome
    hashing,            \* two dicts and the hashes the pipeline gives them
    scanner,            \* EvidenceManifestGenerator: evidence directory,
                        \* manifest, verification results
    verifying           \* the verify_manifest calls in progress, per caller

vars == <<pc, temp_dir, evidence_files, practices_covered, attestations,
          manifest, gcs, tamper, vpc, config, result,
          manifest_dir, generated, saves, edited, verify_result,
          cosign_state, runs, verifiers, calls, hashing, scanner, verifying>>

aux_vars == <<hashing, scanner, verifying>>

service_vars == <<verifiers, calls>>

generator_vars == <<manifest_dir, generated, saves, edited, verify_result>>

collector_vars == <<pc, temp_dir, evidence_files, practices_covered,
                    attestations, manifest, runs>>

pipeline_vars == <<collector_vars, gcs, tamper, vpc, config, result, cosign_state>>

-----------------------------------------------------------------------------
(* Bounds of the model *)

MaxArtifacts == 2      \* workflow artifacts listed by Gitea in one run
MaxRuns == 2           \* collect_all calls on one collector object
MaxVerifiers == 2      \* EvidenceVerifier objects of a verification service
MaxCalls == 2          \* verify_evidence_package calls of the service
MaxCallers == 2        \* processes calling verify_manifest at the same time

-----------------------------------------------------------------------------
(* Files and hashing *)

\* two byte strings: 1 is a JSON text, 2 is a binary blob of the same length
Contents == {1, 2}

IsJson(c) == c = 1

Bytes(c) == [bytes |-> c]

IsBytes(content) == DOMAIN content = {"bytes"}

IsDoc(content) == DOMAIN content = {"json"}

\* os.path.getsize: the two byte strings have the same length, a manifest
\* file is longer
getsize(content) ==
    IF IsBytes(content) THEN 1 ELSE 1 + Cardinality(DOMAIN content.json)

\* _calculate_hash: f"sha256:{hexdigest}"
calculate_hash(content) == [alg |-> "sha256", digest |-> content]

\* json.load of a file: raises on bytes that are no JSON
json_loads_ok(content) == IsDoc(content) \/ (IsBytes(content) /\ IsJson(content.bytes))

NoFiles == [n \in {} |-> Bytes(1)]

\* open(path, 'w').write: creates or overwrites
WriteFile(files, name, content) ==
    [n \in DOMAIN files \cup {name} |-> IF n = name THEN content ELSE files[n]]

exists(files, name) == name \in DOMAIN files

\* self.temp_dir = None of an EvidenceVerifier
NoTempDir == [path |-> 0, exists |-> FALSE, files |-> NoFiles]

-----------------------------------------------------------------------------
(* Names *)

MetadataFile == "workflow-metadata.json"
ManifestFile == "manifest.json"
PackageName == "evidence-b1.tar.gz"
BuildId == "b1"

trivy_files == <<"trivy-container-scan.json", "trivy-fs-scan.json",
                 "trivy-config-scan.json">>

sbom_files == <<"sbom.spdx.json", "sbom.cyclonedx.json", "syft-sbom.json">>

attestation_files == <<"provenance.json", "attestation.json",
                       "intoto-attestation.json">>

SigOf(name) ==
    CASE name = "provenance.json" -> "provenance.json.sig"
      [] name = "attestation.json" -> "attestation.json.sig"
      [] OTHER -> "intoto-attestation.json.sig"

\* names a workflow can give its artifacts
ArtifactNames == {"app.tar.gz", "trivy-fs-scan.json", "provenance.json",
                  "provenance.json.sig", "manifest.json"}

\* x.name.endswith('.tar.gz')
EndsWithTarGz(name) == name \in {"app.tar.gz", PackageName}

SeqsUpTo(S, n) == UNION {[1..k -> S] : k \in 0..n}

Artifact == [name : ArtifactNames, content : Contents]

ArtifactLists == SeqsUpTo(Artifact, MaxArtifacts)

-----------------------------------------------------------------------------
(* Collector records *)

EvidenceFile(filename, content, tool, format) ==
    [filename |-> filename, hash |-> calculate_hash(content),
     size |-> getsize(content), tool |-> tool, format |-> format]

SSMFPractice(practice, tool, evidence) ==
    [practice |-> practice, tool |-> tool, evidence |-> evidence]

AttestationRec(type, file, signature, verified) ==
    [type |-> type, file |-> file, signature |-> signature,
     verified |-> verified]

\* kind and target of the modification of the stored package
NotTampered == [kind |-> "none", name |-> ""]

Init ==
    /\ pc = "idle"
    /\ temp_dir = [exists |-> FALSE, files |-> NoFiles]
    /\ evidence_files = <<>>
    /\ practices_covered = <<>>
    /\ attestations = <<>>
    /\ manifest = <<>>
    /\ gcs = <<>>
    /\ tamper = NotTampered
    /\ vpc = "none"
    /\ config = <<>>
    /\ result = <<>>
    /\ manifest_dir = NoFiles
    /\ generated = <<>>
    /\ saves = 0
    /\ edited = FALSE
    /\ verify_result = <<>>
    /\ cosign_state = "unknown"
    /\ runs = <<>>
    /\ verifiers = [v \in 1..MaxVerifiers |-> NoTempDir]
    /\ calls = <<>>
    /\ hashing = [records |-> <<>>, digests |-> [k \in {} |-> <<>>]]
    /\ scanner = [stage |-> "empty", dir |-> <<>>, manifest |-> <<>>,
                  results |-> <<>>]
    /\ verifying = [dir |-> NoFiles,
                    calls |-> [c \in 1..MaxCallers |->
                                  [pc |-> "idle", manifest |-> <<>>,
                                   calculated_hash |-> <<>>,
                                   result |-> <<>>]]]

-----------------------------------------------------------------------------
(* collect_all *)

\* the finally block of collect_all: shutil.rmtree(self.temp_dir)
RemovedDir == [exists |-> FALSE, files |-> NoFiles]

\* what the collector object holds when a collect_all call begins
LedgerSizes ==
    [evidence_files |-> Len(evidence_files),
     practices_covered |-> Len(practices_covered),
     attestations |-> Len(attestations)]

\* build_id = uuid4(); self.temp_dir = tempfile.mkdtemp(...)
BeginRun ==
    /\ temp_dir' = [exists |-> TRUE, files |-> NoFiles]
    /\ pc' = "build"
    /\ runs' = Append(runs, LedgerSizes)
    /\ UNCHANGED <<evidence_files, practices_covered, attestations, manifest,
                   gcs, tamper, vpc, config, result,
                   generator_vars, service_vars, cosign_state,
                   aux_vars>>

\* the first collect_all on a collector that was just constructed
collect_all_start ==
    /\ pc = "idle"
    /\ BeginRun

\* collect_all called again on the same object after a call returned or
\* raised: nothing but self.temp_dir is assigned before the steps run
collect_all_again ==
    /\ pc \in {"done", "failed"}
    /\ vpc = "none"
    /\ tamper.kind = "none"
    /\ Len(runs) < MaxRuns
    /\ BeginRun

\* the loop over artifacts_list: write the download, hash it, record it
RECURSIVE DownloadArtifacts(_, _, _)
DownloadArtifacts(files, evidence, arts) ==
    IF arts = <<>> THEN [files |-> files, evidence |-> evidence]
    ELSE LET a == Head(arts)
             content == Bytes(a.content)
         IN  DownloadArtifacts(
                 WriteFile(files, a.name, content),
                 Append(evidence,
                        EvidenceFile(a.name, content, "Gitea Actions",
                                     "Binary/Archive")),
                 Tail(arts))

\* metaOk: the run-details request succeeds; arts: the listed artifacts;
\* got: how many are downloaded before a request fails (the except clause
\* only logs and the method returns)
\* lists: the artifact lists Gitea may answer with
BuildEvidence(lists) ==
    /\ pc = "build"
    /\ \E metaOk \in BOOLEAN, meta \in {c \in Contents : IsJson(c)},
          arts \in lists :
       \E got \in 0..Len(arts) :
          LET files1 == IF metaOk
                        THEN WriteFile(temp_dir.files, MetadataFile, Bytes(meta))
                        ELSE temp_dir.files
              ev1 == IF metaOk
                     THEN Append(evidence_files,
                                 EvidenceFile(MetadataFile, Bytes(meta),
                                              "Gitea Actions", "JSON"))
                     ELSE evidence_files
              dl == DownloadArtifacts(files1, ev1, SubSeq(arts, 1, got))
          IN  /\ temp_dir' = [temp_dir EXCEPT !.files = dl.files]
              /\ evidence_files' = dl.evidence
              /\ practices_covered' =
                     IF metaOk
                     THEN Append(practices_covered,
                                 SSMFPractice("PO.3.1", "Gitea Actions",
                                              MetadataFile))
                     ELSE practices_covered
    /\ pc' = "scan"
    /\ UNCHANGED <<attestations, manifest, gcs, tamper, vpc, config, result,
                   generator_vars, service_vars, cosign_state, runs,
                   aux_vars>>

collect_build_evidence == BuildEvidence(ArtifactLists)

\* collect_all raises out of a collection step: the finally block runs
Abort ==
    /\ pc' = "failed"
    /\ temp_dir' = RemovedDir

\* one pass of the loop of _collect_trivy_evidence / collect_sbom_evidence
\* over the file names: each existing file is parsed, hashed and recorded
RECURSIVE ScanFiles(_, _, _, _, _, _)
ScanFiles(files, names, evidence, practices, tool, mapped) ==
    IF names = <<>>
    THEN [raised |-> FALSE, evidence |-> evidence, practices |-> practices]
    ELSE LET f == Head(names) IN
         IF ~exists(files, f)
         THEN ScanFiles(files, Tail(names), evidence, practices, tool, mapped)
         ELSE IF ~json_loads_ok(files[f])
         THEN [raised |-> TRUE, evidence |-> evidence, practices |-> practices]
         ELSE ScanFiles(files, Tail(names),
                        Append(evidence,
                               EvidenceFile(f, files[f], tool.file, tool.format)),
                        practices \o
                            [i \in 1..Len(mapped) |->
                                SSMFPractice(mapped[i], tool.practice, f)],
                        tool, mapped)

TrivyTool == [file |-> "Trivy", format |-> "JSON", practice |-> "Trivy"]

SbomTool == [file |-> "Syft/SBOM Tool", format |-> "JSON (SPDX/CycloneDX)",
             practice |-> "Syft"]

_collect_trivy_evidence(files, evidence, practices) ==
    ScanFiles(files, trivy_files, evidence, practices, TrivyTool, <<"PW.8.1">>)

\* collect_scan_evidence("SAST", "sonarqube", key) when a key is given, then
\* collect_scan_evidence("container", "trivy")
_collect_sonarqube_evidence(files, evidence, practices, got) ==
    \* got = 0: the measures request fails; 1: the issues request fails;
    \* 2: both succeed.  The content written is the response body.
    LET c == Bytes(1)
        f1 == IF got >= 1 THEN WriteFile(files, "sonarqube-measures.json", c)
              ELSE files
        e1 == IF got >= 1
              THEN Append(evidence,
                          EvidenceFile("sonarqube-measures.json", c,
                                       "SonarQube", "JSON"))
              ELSE evidence
        p1 == IF got >= 1
              THEN practices \o
                   <<SSMFPractice("PW.6.1", "SonarQube", "sonarqube-measures.json"),
                     SSMFPractice("PW.7.1", "SonarQube", "sonarqube-measures.json")>>
              ELSE practices
    IN  [files |-> IF got = 2 THEN WriteFile(f1, "sonarqube-issues.json", c)
                   ELSE f1,
         evidence |-> IF got = 2
                      THEN Append(e1, EvidenceFile("sonarqube-issues.json", c,
                                                   "SonarQube", "JSON"))
                      ELSE e1,
         practices |-> p1]

\* sonar: whether a sonar_project_key may be given
ScanEvidence(sonar) ==
    /\ pc = "scan"
    /\ \E withSonar \in sonar, got \in 0..2 :
          LET s == IF withSonar
                   THEN _collect_sonarqube_evidence(temp_dir.files, evidence_files,
                                                    practices_covered, got)
                   ELSE [files |-> temp_dir.files, evidence |-> evidence_files,
                         practices |-> practices_covered]
              t == _collect_trivy_evidence(s.files, s.evidence, s.practices)
          IN  /\ evidence_files' = t.evidence
              /\ practices_covered' = t.practices
              /\ IF t.raised
                 THEN Abort
                 ELSE /\ pc' = "sbom"
                      /\ temp_dir' = [temp_dir EXCEPT !.files = s.files]
    /\ UNCHANGED <<attestations, manifest, gcs, tamper, vpc, config, result,
                   generator_vars, service_vars, cosign_state, runs,
                   aux_vars>>

collect_scan_evidence == ScanEvidence(BOOLEAN)

collect_sbom_evidence ==
    /\ pc = "sbom"
    /\ LET t == ScanFiles(temp_dir.files, sbom_files, evidence_files,
                          practices_covered, SbomTool, <<"PW.9.1", "PS.1.1">>)
       IN  /\ evidence_files' = t.evidence
           /\ practices_covered' = t.practices
           /\ IF t.raised
              THEN Abort
              ELSE /\ pc' = "attest"
                   /\ temp_dir' = temp_dir
    /\ UNCHANGED <<attestations, manifest, gcs, tamper, vpc, config, result,
                   generator_vars, service_vars, cosign_state, runs,
                   aux_vars>>


\* one attestation file of collect_attestation_evidence
AttestOne(files, st, filename, attest_type) ==
    IF ~exists(files, filename) \/ st.raised THEN st
    ELSE IF ~json_loads_ok(files[filename]) THEN [st EXCEPT !.raised = TRUE]
    ELSE LET signature_file == SigOf(filename)
             has_signature == exists(files, signature_file)
             \* the collector's _verify_cosign_signature: both files exist
             verified == has_signature /\ exists(files, filename)
             ev1 == IF has_signature
                    THEN Append(st.evidence,
                                EvidenceFile(signature_file, files[signature_file],
                                             "Cosign", "Signature"))
                    ELSE st.evidence
         IN  [raised |-> FALSE,
              evidence |-> Append(ev1, EvidenceFile(filename, files[filename],
                                                    "Build System", "JSON")),
              attestations |->
                  Append(st.attestations,
                         AttestationRec(attest_type, filename,
                                        IF has_signature THEN signature_file
                                        ELSE "none",
                                        verified)),
              practices |-> Append(st.practices,
                                   SSMFPractice("PS.2.1", "Cosign/Attestation",
                                                filename))]

collect_attestation_evidence ==
    /\ pc = "attest"
    /\ LET s0 == [raised |-> FALSE, evidence |-> evidence_files,
                  attestations |-> attestations, practices |-> practices_covered]
           s1 == AttestOne(temp_dir.files, s0, attestation_files[1],
                           "SLSA Provenance")
           s2 == AttestOne(temp_dir.files, s1, attestation_files[2],
                           "Build Attestation")
           s3 == AttestOne(temp_dir.files, s2, attestation_files[3],
                           "in-toto Attestation")
       IN  /\ evidence_files' = s3.evidence
           /\ attestations' = s3.attestations
           /\ practices_covered' = s3.practices
           /\ IF s3.raised
              THEN Abort
              ELSE /\ pc' = "manifest"
                   /\ temp_dir' = temp_dir
    /\ UNCHANGED <<manifest, gcs, tamper, vpc, config, result,
                   generator_vars, service_vars, cosign_state, runs,
                   aux_vars>>


-----------------------------------------------------------------------------
(* create_manifest, package_evidence, upload_to_gcs, register_evidence *)

total_practices == 42

\* the distinct values of one key over a list of dicts
PracticeSet(claims) == {claims[i].practice : i \in 1..Len(claims)}

\* round((count / total) * 100, 2), in hundredths; no count/total of the
\* model falls on a rounding tie
coverage_percent(count, total) == (2 * 10000 * count + total) \div (2 * total)

compliance_summary(practices) ==
    LET practices_covered_count == Cardinality(PracticeSet(practices))
    IN  [total_practices |-> total_practices,
         practices_covered |-> practices_covered_count,
         coverage_percent |->
             coverage_percent(practices_covered_count, total_practices)]

\* the manifest dict create_manifest builds from a ledger, before
\* manifest_hash is set
ManifestOf(build_id, repository, commit_sha, files, practices, atts) ==
    [manifest_version |-> "1.0",
     build_id |-> build_id,
     repository |-> repository,
     commit_sha |-> commit_sha,
     timestamp |-> "t",
     collector_version |-> "1.0.0",
     ssdf_practices_covered |-> practices,
     evidence_files |-> files,
     attestations |-> atts,
     compliance_summary |-> compliance_summary(practices),
     retention |-> "7-year retention"]

\* the manifest dict of the collector's own ledger
ManifestBody(build_id, repository, commit_sha) ==
    ManifestOf(build_id, repository, commit_sha,
               evidence_files, practices_covered, attestations)

\* manifest[key] = value
SetKey(d, key, value) ==
    [k \in DOMAIN d \cup {key} |-> IF k = key THEN value ELSE d[k]]

\* del manifest[key]
DelKey(d, key) == [k \in DOMAIN d \ {key} |-> d[k]]

\* json.dump(manifest, f, indent=2)
JsonFile(d) == [json |-> d]

\* the hash is taken of the file written without manifest_hash
WithManifestHash(body) ==
    SetKey(body, "manifest_hash", calculate_hash(JsonFile(body)))

create_manifest ==
    /\ pc = "manifest"
    /\ LET body == ManifestBody(BuildId, "owner/repo", "c0ffee")
           m == WithManifestHash(body)
       IN  /\ manifest' = m
           /\ temp_dir' = [temp_dir EXCEPT
                              !.files = WriteFile(@, ManifestFile, JsonFile(m))]
    /\ pc' = "package"
    /\ UNCHANGED <<evidence_files, practices_covered, attestations, gcs,
                   tamper, vpc, config, result,
                   generator_vars, service_vars, cosign_state, runs,
                   aux_vars>>

\* tar.add(self.temp_dir, arcname=build_id, filter=...): every file of the
\* working directory whose name does not end in .tar.gz
TarOf(files) ==
    [n \in {f \in DOMAIN files : ~EndsWithTarGz(f)} |-> files[n]]

TarFile(tar) == [tar |-> tar]

package_evidence ==
    /\ pc = "package"
    /\ temp_dir' = [temp_dir EXCEPT
                       !.files = WriteFile(@, PackageName, TarFile(TarOf(@)))]
    /\ pc' = "upload"
    /\ UNCHANGED <<evidence_files, practices_covered, attestations, manifest,
                   gcs, tamper, vpc, config, result,
                   generator_vars, service_vars, cosign_state, runs,
                   aux_vars>>

\* a package in the bucket: readable as a gzip tar (ok) or damaged
StoredPackage(tar) == [ok |-> TRUE, tar |-> tar]

\* blob.upload_from_filename(package_path): raises when the upload fails
upload_to_gcs ==
    /\ pc = "upload"
    /\ \E ok \in BOOLEAN :
          IF ok
          THEN /\ gcs' = <<StoredPackage(temp_dir.files[PackageName].tar)>>
               /\ pc' = "register"
               /\ temp_dir' = temp_dir
          ELSE /\ gcs' = gcs
               /\ Abort
    /\ UNCHANGED <<evidence_files, practices_covered, attestations, manifest,
                   tamper, vpc, config, result,
                   generator_vars, service_vars, cosign_state, runs,
                   aux_vars>>

\* the INSERT into evidence_registry, then the finally block of collect_all
register_evidence ==
    /\ pc = "register"
    /\ \E ok \in BOOLEAN : pc' = IF ok THEN "done" ELSE "failed"
    /\ temp_dir' = RemovedDir
    /\ UNCHANGED <<evidence_files, practices_covered, attestations, manifest,
                   gcs, tamper, vpc, config, result,
                   generator_vars, service_vars, cosign_state, runs,
                   aux_vars>>

collect_all ==
    \/ collect_all_start
    \/ collect_build_evidence
    \/ collect_scan_evidence
    \/ collect_sbom_evidence
    \/ collect_attestation_evidence
    \/ create_manifest
    \/ package_evidence
    \/ upload_to_gcs
    \/ register_evidence


-----------------------------------------------------------------------------
(* EvidenceVerifier: configuration *)

\* dict.get(key, default)
Get(d, key, default) == IF key \in DOMAIN d THEN d[key] ELSE default

EmptyDict == [k \in {} |-> 0]

default_config ==
    [gcs |-> [bucket |-> "compliance-evidence-ssdf"],
     verification |->
         [hash_algorithm |-> "sha256",
          verify_signatures |-> TRUE,
          minimum_coverage |-> 8000,
          required_practices |-> <<"PW.6.1", "PW.8.1", "PW.9.1", "PS.2.1">>]]

\* the custom configuration files the verifier is started with: none, one
\* that gives every verification setting, one that gives only the minimum
\* coverage
ConfigFiles ==
    {EmptyDict,
     [verification |->
         [hash_algorithm |-> "sha256", verify_signatures |-> TRUE,
          minimum_coverage |-> 400, required_practices |-> <<"PW.8.1">>]],
     [verification |-> [minimum_coverage |-> 400]]}

\* default_config.update(custom_config): a top-level key of the file
\* replaces the whole default section
_load_config(custom_config) ==
    [k \in DOMAIN default_config \cup DOMAIN custom_config |->
        IF k \in DOMAIN custom_config THEN custom_config[k]
        ELSE default_config[k]]

-----------------------------------------------------------------------------
(* EvidenceVerifier: the checks.  A check returns                          *)
(* [raised, success, errors, warnings]; raised stands for an exception     *)
(* (KeyError, JSONDecodeError) that leaves the method.                     *)

Err(kind, name) == [kind |-> kind, name |-> name]

Raised == [raised |-> TRUE, success |-> FALSE, errors |-> <<>>,
           warnings |-> <<>>]

Outcome(errors, warnings) ==
    [raised |-> FALSE, success |-> Len(errors) = 0, errors |-> errors,
     warnings |-> warnings]

required_fields ==
    <<"manifest_version", "build_id", "repository", "commit_sha", "timestamp",
      "ssdf_practices_covered", "evidence_files", "compliance_summary">>

required_summary_fields ==
    <<"total_practices", "practices_covered", "coverage_percent">>

\* for field in fields: if field not in d: errors.append(...)
RECURSIVE MissingFields(_, _, _)
MissingFields(fields, d, kind) ==
    IF fields = <<>> THEN <<>>
    ELSE (IF Head(fields) \in DOMAIN d THEN <<>>
          ELSE <<Err(kind, Head(fields))>>)
         \o MissingFields(Tail(fields), d, kind)

verify_manifest_integrity(content) ==
    IF ~json_loads_ok(content)
    THEN Outcome(<<Err("Invalid JSON in manifest", "")>>, <<>>)
    ELSE LET m == content.json IN
         Outcome(MissingFields(required_fields, m, "Missing required field")
                 \o (IF "compliance_summary" \in DOMAIN m
                     THEN MissingFields(required_summary_fields,
                                        m.compliance_summary,
                                        "Missing compliance_summary field")
                     ELSE <<>>),
                 <<>>)

\* the loop of verify_file_hashes over the entries, from entry i on
RECURSIVE HashLoop(_, _, _)
HashLoop(entries, dir, i) ==
    IF i > Len(entries) THEN Outcome(<<>>, <<>>)
    ELSE LET e == entries[i]
             rest == HashLoop(entries, dir, i + 1)
         IN  IF ~({"filename", "hash"} \subseteq DOMAIN e) \/ rest.raised
             THEN Raised
             ELSE IF ~exists(dir, e.filename)
             THEN Outcome(<<Err("File not found", e.filename)>> \o rest.errors,
                          <<>>)
             ELSE IF calculate_hash(dir[e.filename]) # e.hash
             THEN Outcome(<<Err("Hash mismatch", e.filename)>> \o rest.errors,
                          <<>>)
             ELSE rest

verify_file_hashes(m, evidence_dir) ==
    HashLoop(Get(m, "evidence_files", <<>>), evidence_dir, 1)

high_priority == {"PO.3.1", "PW.6.1", "PW.7.1", "PW.8.1", "PW.9.1", "PS.2.1"}

Range(seq) == {seq[i] : i \in 1..Len(seq)}

\* if coverage_percent < minimum_coverage
BelowMinimum(coverage, minimum_coverage) == coverage < minimum_coverage

verify_ssdf_coverage(m, cfg) ==
    LET v == cfg.verification
        claims == Get(m, "ssdf_practices_covered", <<>>)
    IN  IF \/ ~({"minimum_coverage", "required_practices"} \subseteq DOMAIN v)
           \/ \E i \in 1..Len(claims) : "practice" \notin DOMAIN claims[i]
        THEN Raised
        ELSE LET cs == Get(m, "compliance_summary", EmptyDict)
                 coverage == Get(cs, "coverage_percent", 0)
                 covered_practices == PracticeSet(claims)
                 missing_required ==
                     Range(v.required_practices) \ covered_practices
                 missing_priority == high_priority \ covered_practices
             IN  Outcome(
                     (IF BelowMinimum(coverage, v.minimum_coverage)
                      THEN <<Err("Coverage below minimum", "")>> ELSE <<>>)
                     \o (IF missing_required # {}
                         THEN <<Err("Missing required practices", "")>>
                         ELSE <<>>),
                     IF missing_priority # {}
                     THEN <<Err("Missing high-priority practices", "")>>
                     ELSE <<>>)

\* 'which cosign' fails: True; the subprocess raises: False; otherwise both
\* files exist
CosignStates == {"absent", "present", "error"}

\* a check that reports success when the subprocess raises
_verify_cosign_signature_ErrorIgnored(cosign, dir, att_file, sig_file) ==
    CASE cosign = "absent" -> TRUE
      [] cosign = "error" -> TRUE
      [] OTHER -> exists(dir, att_file) /\ exists(dir, sig_file)

_verify_cosign_signature(cosign, dir, att_file, sig_file) ==
    CASE cosign = "absent" -> TRUE
      [] cosign = "error" -> FALSE
      [] OTHER -> exists(dir, att_file) /\ exists(dir, sig_file)

RECURSIVE SignatureLoop(_, _, _, _)
SignatureLoop(atts, dir, cosign, i) ==
    IF i > Len(atts) THEN Outcome(<<>>, <<>>)
    ELSE LET a == atts[i]
             rest == SignatureLoop(atts, dir, cosign, i + 1)
         IN  IF ~({"type", "file"} \subseteq DOMAIN a) \/ rest.raised
             THEN Raised
             ELSE LET sig_file == Get(a, "signature", "none") IN
                  IF sig_file = "none"
                  THEN Outcome(rest.errors,
                               <<Err("No signature for attestation", a.file)>>
                               \o rest.warnings)
                  ELSE IF ~exists(dir, a.file)
                  THEN Outcome(<<Err("Attestation file not found", a.file)>>
                               \o rest.errors, rest.warnings)
                  ELSE IF ~exists(dir, sig_file)
                  THEN Outcome(<<Err("Signature file not found", sig_file)>>
                               \o rest.errors, rest.warnings)
                  ELSE IF ~_verify_cosign_signature(cosign, dir, a.file, sig_file)
                  THEN Outcome(<<Err("Signature verification failed", a.file)>>
                               \o rest.errors, rest.warnings)
                  ELSE rest

verify_signatures(m, evidence_dir, cfg, cosign) ==
    IF "verify_signatures" \notin DOMAIN cfg.verification THEN Raised
    ELSE IF ~cfg.verification.verify_signatures THEN Outcome(<<>>, <<>>)
    ELSE LET atts == Get(m, "attestations", <<>>) IN
         IF atts = <<>>
         THEN Outcome(<<>>, <<Err("No attestations found in manifest", "")>>)
         ELSE SignatureLoop(atts, evidence_dir, cosign, 1)


-----------------------------------------------------------------------------
(* EvidenceVerifier.verify_evidence_package *)

\* one entry of checks_performed.  The details text of every check but the
\* extraction is a function of the other fields of the result and is kept
\* as 0; the extraction's names the scratch directory.
CheckAt(name, status, details) ==
    [name |-> name, status |-> status, details |-> details]

Check(name, status) == CheckAt(name, status, 0)

CheckOf(name, outcome) ==
    Check(name, IF outcome.success THEN "passed" ELSE "failed")

\* a result that tolerates one error
IsValid_OneErrorTolerated(errors) == Len(errors) <= 1

\* valid = len(errors) == 0
IsValid(errors) == Len(errors) = 0

_create_result(valid, build_id, errors, warnings, checks, coverage, file_count, total_size) ==
    [valid |-> valid, build_id |-> build_id, errors |-> errors,
     warnings |-> warnings, checks_performed |-> checks,
     coverage_percent |-> coverage, file_count |-> file_count,
     total_size |-> total_size]

\* what a call leaves: the VerificationResult, or an exception, and
\* self.temp_dir as the call leaves it
Returned(r, temp) == [raised |-> FALSE, result |-> r, temp_dir |-> temp]

\* an exception leaves verify_evidence_package: no VerificationResult
Raises(temp) == [raised |-> TRUE, result |-> <<>>, temp_dir |-> temp]

\* sum(f['size'] for f in evidence_files)
RECURSIVE SumSizes(_)
SumSizes(entries) ==
    IF entries = <<>> THEN 0 ELSE Head(entries).size + SumSizes(Tail(entries))

\* tempfile.mkdtemp(prefix="evidence-verify-"): an empty directory whose
\* name no other verifier has; a verifier makes at most one
mkdtemp(verifier) == [path |-> verifier, exists |-> TRUE, files |-> NoFiles]

\* if not self.temp_dir: self.temp_dir = tempfile.mkdtemp(...)
EnsureTempDir(temp, verifier) ==
    IF temp.path = 0 THEN mkdtemp(verifier) ELSE temp

\* files written over what a directory already holds
Overwrite(files, written) ==
    [n \in DOMAIN files \cup DOMAIN written |->
        IF n \in DOMAIN written THEN written[n] ELSE files[n]]

\* download_from_gcs: the object is written into self.temp_dir; raises
\* when the bucket has no such object
download_from_gcs(bucket, temp, verifier) ==
    LET t == EnsureTempDir(temp, verifier)
    IN  IF bucket = <<>>
        THEN [raised |-> TRUE, temp_dir |-> t]
        ELSE [raised |-> FALSE,
              temp_dir |-> [t EXCEPT !.files =
                               WriteFile(@, PackageName,
                                         TarFile(bucket[1].tar))]]

\* a package read as a valid archive whatever its bytes
extract_package_NeverFails(pkg, temp, verifier) ==
    LET t == EnsureTempDir(temp, verifier)
    IN  [raised |-> FALSE,
         temp_dir |-> [t EXCEPT !.files = Overwrite(@, pkg.tar)]]

\* extract_package: tar.extractall(path=self.temp_dir) over whatever the
\* directory holds; tarfile.open raises on a damaged package
extract_package(pkg, temp, verifier) ==
    LET t == EnsureTempDir(temp, verifier)
    IN  IF ~pkg.ok
        THEN [raised |-> TRUE, temp_dir |-> t]
        ELSE [raised |-> FALSE,
              temp_dir |-> [t EXCEPT !.files = Overwrite(@, pkg.tar)]]

\* what os.walk(extract_dir) finds after extraction
ExtractedFiles(temp) == temp.files

\* the checks once the manifest is parsed (from '# Verify manifest
\* integrity' to the return)
RunChecks(m, manifest_content, dir, cfg, cosign, checks0, temp) ==
    LET build_id == Get(m, "build_id", "unknown")
        integrity == verify_manifest_integrity(manifest_content)
        hashes == verify_file_hashes(m, dir)
        coverage == verify_ssdf_coverage(m, cfg)
        signatures == verify_signatures(m, dir, cfg, cosign)
        entries == Get(m, "evidence_files", <<>>)
    IN  IF \/ hashes.raised \/ coverage.raised \/ signatures.raised
           \/ \E i \in 1..Len(entries) : "size" \notin DOMAIN entries[i]
        THEN Raises(temp)
        ELSE LET errors == integrity.errors \o hashes.errors
                           \o coverage.errors \o signatures.errors
                 warnings == coverage.warnings \o signatures.warnings
                 checks == checks0
                           \o <<Check("Manifest Discovery", "passed"),
                                CheckOf("Manifest Integrity", integrity),
                                CheckOf("File Hash Verification", hashes),
                                CheckOf("SSDF Coverage", coverage),
                                CheckOf("Signature Verification", signatures)>>
             IN  Returned(_create_result(
                     IsValid(errors), build_id, errors, warnings, checks,
                     Get(Get(m, "compliance_summary", EmptyDict),
                         "coverage_percent", 0),
                     Len(entries), SumSizes(entries)), temp)

\* gcs_uri: a URI is given; bucket: the object it names (<<>> when absent,
\* the download then raises); local_package: the file at the local path
\* (<<>> when there is none); temp: self.temp_dir when the call starts;
\* verifier: the EvidenceVerifier object
verify_evidence_package(gcs_uri, bucket, local_package, cfg, cosign, temp, verifier) ==
    LET download == IF gcs_uri
                    THEN download_from_gcs(bucket, temp, verifier)
                    ELSE [raised |-> FALSE, temp_dir |-> temp]
        downloaded == IF gcs_uri
                      THEN <<Check("GCS Download", "passed")>> ELSE <<>>
        package == IF gcs_uri THEN bucket ELSE local_package
    IN  IF download.raised
        THEN Returned(_create_result(
                 FALSE, "", <<Err("Failed to download from GCS", "")>>, <<>>,
                 <<Check("GCS Download", "failed")>>, 0, 0, 0),
                 download.temp_dir)
        ELSE IF package = <<>>
        THEN Returned(_create_result(
                 FALSE, "", <<Err("No valid package file provided", "")>>,
                 <<>>, <<>>, 0, 0, 0), download.temp_dir)
        ELSE LET extraction == extract_package(package[1], download.temp_dir,
                                               verifier)
                 after == extraction.temp_dir
             IN  IF extraction.raised
                 THEN Returned(_create_result(
                          FALSE, "", <<Err("Failed to extract package", "")>>,
                          <<>>,
                          downloaded
                          \o <<Check("Package Extraction", "failed")>>,
                          0, 0, 0), after)
                 ELSE LET dir == ExtractedFiles(after)
                          checks0 == downloaded
                                     \o <<CheckAt("Package Extraction",
                                                  "passed", after.path)>>
                      IN  IF ~exists(dir, ManifestFile)
                          THEN Returned(_create_result(
                                   FALSE, "",
                                   <<Err("manifest.json not found in package",
                                         "")>>,
                                   <<>>,
                                   checks0 \o <<Check("Manifest Discovery",
                                                      "failed")>>,
                                   0, 0, 0), after)
                          ELSE IF ~json_loads_ok(dir[ManifestFile])
                                  \/ ~IsDoc(dir[ManifestFile])
                          THEN Raises(after)
                          ELSE RunChecks(dir[ManifestFile].json,
                                         dir[ManifestFile], dir, cfg, cosign,
                                         checks0, after)

\* the one EvidenceVerifier a run of main() constructs
MainVerifier == 1

\* a finally block that leaves the directory in place
cleanup_Skipped(temp) == temp

\* cleanup(): if self.temp_dir and os.path.exists(self.temp_dir):
\* shutil.rmtree(self.temp_dir); self.temp_dir keeps the path
cleanup(temp) ==
    IF temp.path # 0 /\ temp.exists
    THEN [temp EXCEPT !.exists = FALSE, !.files = NoFiles]
    ELSE temp

\* main(): construct the verifier with a configuration file and verify
\* either the uploaded package (--gcs-uri) or a local path (--local).  The
\* model gives a local path only when nothing was uploaded, and the path
\* names no file.  The finally block of main() runs cleanup() whether the
\* call returned or raised.
verify_main ==
    /\ vpc = "none"
    /\ pc \in {"done", "failed"}
    /\ \E file \in ConfigFiles, tool \in CosignStates,
          gcs_uri \in IF gcs = <<>> THEN BOOLEAN ELSE {TRUE} :
          LET cfg == _load_config(file)
              out == verify_evidence_package(gcs_uri, gcs, <<>>, cfg, tool,
                                             NoTempDir, MainVerifier)
          IN  /\ config' = cfg
              /\ cosign_state' = tool
              /\ result' = out.result
              /\ vpc' = IF out.raised THEN "raised" ELSE "returned"
              /\ verifiers' = [verifiers EXCEPT
                                  ![MainVerifier] = cleanup(out.temp_dir)]
    /\ UNCHANGED <<collector_vars, gcs, tamper, generator_vars, calls,
                   aux_vars>>

-----------------------------------------------------------------------------
(* Modification of the stored package between upload and verification     *)

CanTamper ==
    /\ pc = "done"
    /\ vpc = "none"
    /\ tamper.kind = "none"
    /\ gcs # <<>>
    /\ gcs[1].ok

StoredManifest == gcs[1].tar[ManifestFile].json

Tamper(kind, name, tar) ==
    /\ gcs' = <<[gcs[1] EXCEPT !.tar = tar]>>
    /\ tamper' = [kind |-> kind, name |-> name]
    /\ UNCHANGED <<collector_vars, vpc, config, result,
                   generator_vars, service_vars, cosign_state,
                   aux_vars>>

TamperManifest(kind, name, m) ==
    Tamper(kind, name, WriteFile(gcs[1].tar, ManifestFile, JsonFile(m)))

\* one byte of one packaged artifact is altered
TamperArtifact ==
    /\ CanTamper
    /\ \E f \in DOMAIN gcs[1].tar \ {ManifestFile}, c \in Contents :
          /\ gcs[1].tar[f] # Bytes(c)
          /\ Tamper("artifact", f, WriteFile(gcs[1].tar, f, Bytes(c)))

\* compliance_summary.coverage_percent is edited, manifest_hash is not
TamperCoverage ==
    /\ CanTamper
    /\ \E v \in {0, 9000} :
          /\ StoredManifest.compliance_summary.coverage_percent # v
          /\ TamperManifest(
                 "coverage", "coverage_percent",
                 [StoredManifest EXCEPT !.compliance_summary.coverage_percent = v])

RemovableFields == {"evidence_files", "ssdf_practices_covered",
                    "compliance_summary", "manifest_hash"}

\* a top-level field of the manifest is removed
TamperRemoveField ==
    /\ CanTamper
    /\ \E k \in RemovableFields :
          TamperManifest("field", k, DelKey(StoredManifest, k))

\* a key of the first artifact entry is removed
TamperRemoveEntryKey ==
    /\ CanTamper
    /\ StoredManifest.evidence_files # <<>>
    /\ \E k \in {"hash", "size"} :
          TamperManifest(
              "entry", k,
              [StoredManifest EXCEPT !.evidence_files[1] = DelKey(@, k)])

\* manifest.json is overwritten with bytes that are no JSON
TamperCorruptManifest ==
    /\ CanTamper
    /\ Tamper("manifest", ManifestFile,
              WriteFile(gcs[1].tar, ManifestFile, Bytes(2)))

\* a member of the archive is deleted
TamperDeleteFile ==
    /\ CanTamper
    /\ \E f \in DOMAIN gcs[1].tar :
          Tamper("delete", f, [n \in DOMAIN gcs[1].tar \ {f} |-> gcs[1].tar[n]])

\* the package is damaged so that it no longer opens as a gzip tar
TamperCorruptPackage ==
    /\ CanTamper
    /\ gcs' = <<[gcs[1] EXCEPT !.ok = FALSE]>>
    /\ tamper' = [kind |-> "package", name |-> PackageName]
    /\ UNCHANGED <<collector_vars, vpc, config, result,
                   generator_vars, service_vars, cosign_state,
                   aux_vars>>

TamperPackage ==
    \/ TamperArtifact
    \/ TamperCoverage
    \/ TamperRemoveField
    \/ TamperRemoveEntryKey
    \/ TamperCorruptManifest
    \/ TamperDeleteFile
    \/ TamperCorruptPackage

-----------------------------------------------------------------------------
(* A verification service: EvidenceVerifier objects that are kept and      *)
(* verify one archive after another                                        *)

\* the ledger and working directory of a collect_all run whose run details
\* were fetched and whose artifacts are arts (no SonarQube key, no SBOM)
CollectedFrom(arts) ==
    LET meta == Bytes(1)
        dl == DownloadArtifacts(
                  WriteFile(NoFiles, MetadataFile, meta),
                  <<EvidenceFile(MetadataFile, meta, "Gitea Actions", "JSON")>>,
                  arts)
        t == _collect_trivy_evidence(
                 dl.files, dl.evidence,
                 <<SSMFPractice("PO.3.1", "Gitea Actions", MetadataFile)>>)
        a == AttestOne(dl.files,
                       [raised |-> FALSE, evidence |-> t.evidence,
                        attestations |-> <<>>, practices |-> t.practices],
                       attestation_files[1], "SLSA Provenance")
    IN  [files |-> dl.files, evidence_files |-> a.evidence,
         practices_covered |-> a.practices, attestations |-> a.attestations]

\* the package collect_all uploads for that run
PackageOf(arts) ==
    LET run == CollectedFrom(arts)
        m == WithManifestHash(
                 ManifestOf(BuildId, "owner/repo", "c0ffee",
                            run.evidence_files, run.practices_covered,
                            run.attestations))
    IN  StoredPackage(TarOf(WriteFile(run.files, ManifestFile, JsonFile(m))))

\* one file of a package removed after upload
WithoutFile(pkg, f) ==
    [pkg EXCEPT !.tar = [n \in DOMAIN pkg.tar \ {f} |-> pkg.tar[n]]]

ScanRun == <<[name |-> "trivy-fs-scan.json", content |-> 1]>>

SignedRun == <<[name |-> "provenance.json", content |-> 1],
               [name |-> "provenance.json.sig", content |-> 2]>>

\* what the service is asked to verify: bucket is the object the URI names
\* (<<>>: no such object)
Archive(name, bucket, untampered) ==
    [name |-> name, bucket |-> bucket, untampered |-> untampered]

Archives ==
    {Archive("scan", <<PackageOf(ScanRun)>>, TRUE),
     Archive("scan, report deleted",
             <<WithoutFile(PackageOf(ScanRun), "trivy-fs-scan.json")>>, FALSE),
     Archive("signed", <<PackageOf(SignedRun)>>, TRUE),
     Archive("signed, signature deleted",
             <<WithoutFile(PackageOf(SignedRun), "provenance.json.sig")>>,
             FALSE),
     Archive("damaged", <<[PackageOf(ScanRun) EXCEPT !.ok = FALSE]>>, FALSE),
     Archive("missing", <<>>, FALSE)}

\* EvidenceVerifier(config_path) for every verifier of the service, on one
\* host
start_service ==
    /\ config = <<>>
    /\ \E file \in ConfigFiles, tool \in CosignStates :
          /\ config' = _load_config(file)
          /\ cosign_state' = tool
    /\ UNCHANGED <<collector_vars, gcs, tamper, vpc, result, generator_vars,
                   service_vars,
                   aux_vars>>

\* verifier.verify_evidence_package(gcs_uri=...) on one of the verifiers
verify_call ==
    /\ config # <<>>
    /\ Len(calls) < MaxCalls
    /\ \E v \in 1..MaxVerifiers, archive \in Archives :
          LET out == verify_evidence_package(TRUE, archive.bucket, <<>>,
                                             config, cosign_state,
                                             verifiers[v], v)
          IN  /\ verifiers' = [verifiers EXCEPT ![v] = out.temp_dir]
              /\ calls' = Append(calls,
                                 [verifier |-> v, archive |-> archive,
                                  raised |-> out.raised,
                                  result |-> out.result])
    /\ UNCHANGED <<collector_vars, gcs, tamper, vpc, config, result,
                   generator_vars, cosign_state,
                   aux_vars>>

NextVerifier ==
    \/ start_service
    \/ verify_call

SpecVerifier == Init /\ [][NextVerifier]_vars

-----------------------------------------------------------------------------
(* ManifestGenerator (ssdf/evidence/manifest-generator.py)                 *)

MaxClaims == 2         \* practice claims handed to generate_manifest
MaxSaves == 2          \* calls of save_manifest on one manifest dict

\* the keys of _load_ssdf_practices
ssdf_practices ==
    {"PO.1.1", "PO.3.1", "PO.3.2", "PO.5.1",
     "PS.1.1", "PS.2.1", "PS.3.1",
     "PW.1.1", "PW.4.1", "PW.4.4", "PW.5.1", "PW.6.1", "PW.6.2", "PW.7.1",
     "PW.8.1", "PW.8.2", "PW.9.1", "PW.9.2",
     "RV.1.1", "RV.1.2", "RV.2.1", "RV.2.2", "RV.3.1", "RV.3.3"}

\* self.ssdf_practices.get(practice, {}).get('group', 'Unknown')
practice_group(practice) ==
    CASE practice \in {"PO.1.1", "PO.3.1", "PO.3.2", "PO.5.1"} -> "PO"
      [] practice \in {"PS.1.1", "PS.2.1", "PS.3.1"} -> "PS"
      [] practice \in {"RV.1.1", "RV.1.2", "RV.2.1", "RV.2.2", "RV.3.1",
                       "RV.3.3"} -> "RV"
      [] practice \in ssdf_practices -> "PW"
      [] OTHER -> "Unknown"

\* the practice claims a caller hands over: two practices of the catalog and
\* one id the catalog does not hold
ClaimedPractices == {"PO.3.1", "PW.8.1", "XX.9.9"}

GeneratorClaims ==
    SeqsUpTo({SSMFPractice(p, "Trivy", "trivy-fs-scan.json") :
                 p \in ClaimedPractices}, MaxClaims)

GeneratorEvidence ==
    {<<>>, <<EvidenceFile("trivy-fs-scan.json", Bytes(1), "Trivy", "JSON")>>}

\* the dict generate_manifest builds; tools_used, retention and metadata are
\* fixed by the arguments and are kept as one constant field each
generate_manifest(build_id, repository, commit_sha, files, practices) ==
    LET unique_practices == PracticeSet(practices)
        practices_covered_count == Cardinality(unique_practices)
    IN  [manifest_version |-> "1.0",
         build_id |-> build_id,
         repository |-> repository,
         commit_sha |-> commit_sha,
         branch |-> "main",
         timestamp |-> "t",
         ssdf_practices_covered |->
             [i \in 1..Len(practices) |->
                 [practice |-> practices[i].practice,
                  group |-> practice_group(practices[i].practice),
                  tool |-> practices[i].tool,
                  evidence |-> practices[i].evidence]],
         evidence_files |-> files,
         attestations |-> <<>>,
         compliance_summary |->
             [framework |-> "NIST SSDF 1.1",
              total_practices |-> Cardinality(ssdf_practices),
              practices_covered |-> practices_covered_count,
              coverage_percent |->
                  coverage_percent(practices_covered_count,
                                   Cardinality(ssdf_practices)),
              missing_practices |-> ssdf_practices \ unique_practices],
         retention |-> "7-year retention per compliance requirements",
         metadata |-> "defaults"]

\* manifest_dir / f"{build_id}.json" and manifest_path.with_suffix('.tmp')
ManifestPath(build_id) == IF build_id = BuildId THEN "b1.json" ELSE "unknown.json"

TempPath(build_id) == IF build_id = BuildId THEN "b1.tmp" ELSE "unknown.tmp"

\* save_manifest: dump the dict, hash the file, set manifest['manifest_hash']
\* on the caller's dict, dump again.  Returns the dict and the directory.
save_manifest(m, dir) ==
    LET manifest_path == ManifestPath(Get(m, "build_id", "uuid"))
        dir1 == WriteFile(dir, manifest_path, JsonFile(m))
        manifest_hash == calculate_hash(dir1[manifest_path])
        m2 == SetKey(m, "manifest_hash", manifest_hash)
    IN  [manifest |-> m2, dir |-> WriteFile(dir1, manifest_path, JsonFile(m2))]

\* load_manifest: None when the file does not exist
load_manifest(dir, build_id) ==
    IF exists(dir, ManifestPath(build_id))
    THEN dir[ManifestPath(build_id)].json ELSE <<>>

\* the threshold of verify_manifest's coverage warning, in hundredths
low_coverage == 8000

\* required_fields of verify_manifest
manifest_required_fields ==
    <<"manifest_version", "build_id", "repository", "commit_sha", "timestamp",
      "ssdf_practices_covered", "evidence_files", "compliance_summary">>

\* verify_manifest as a whole: [raised, valid, errors, warnings]
verify_manifest(dir, build_id) ==
    LET m == load_manifest(dir, build_id) IN
    IF m = <<>>
    THEN [raised |-> FALSE, valid |-> FALSE,
          errors |-> <<Err("Manifest not found", "")>>, warnings |-> <<>>]
    ELSE LET errors == MissingFields(manifest_required_fields, m,
                                     "Missing required field")
             temp == WriteFile(dir, TempPath(build_id),
                               JsonFile(DelKey(m, "manifest_hash")))
             calculated_hash == calculate_hash(temp[TempPath(build_id)])
             hash_warnings ==
                 IF "manifest_hash" \in DOMAIN m
                    /\ calculated_hash # m.manifest_hash
                 THEN <<Err("Hash mismatch", "")>> ELSE <<>>
             cs == Get(m, "compliance_summary", EmptyDict)
             low == Get(cs, "coverage_percent", 0) < low_coverage
         IN  IF low /\ ~("compliance_summary" \in DOMAIN m
                         /\ "coverage_percent" \in DOMAIN cs)
             THEN [raised |-> TRUE, valid |-> FALSE, errors |-> <<>>,
                   warnings |-> <<>>]
             ELSE [raised |-> FALSE, valid |-> Len(errors) = 0,
                   errors |-> errors,
                   warnings |-> hash_warnings
                       \o (IF low THEN <<Err("Low SSDF coverage", "")>>
                           ELSE <<>>)]

\* a caller builds a manifest dict
GenerateManifest ==
    /\ generated = <<>>
    /\ \E files \in GeneratorEvidence, practices \in GeneratorClaims :
          generated' = generate_manifest(BuildId, "owner/repo", "c0ffee",
                                         files, practices)
    /\ UNCHANGED <<pipeline_vars, service_vars, manifest_dir, saves, edited, verify_result,
                   aux_vars>>

\* the caller saves the dict it holds (again); the verify command is the
\* last thing run on the directory
SaveManifest ==
    /\ generated # <<>>
    /\ saves < MaxSaves
    /\ verify_result = <<>>
    /\ LET out == save_manifest(generated, manifest_dir)
       IN  /\ generated' = out.manifest
           /\ manifest_dir' = out.dir
    /\ saves' = saves + 1
    /\ edited' = FALSE
    /\ UNCHANGED <<pipeline_vars, service_vars, verify_result,
                   aux_vars>>

StoredGenerated == manifest_dir[ManifestPath(BuildId)].json

\* the stored manifest is changed on disk: a field other than manifest_hash
\* gets another value or is removed
EditStoredManifest ==
    /\ exists(manifest_dir, ManifestPath(BuildId))
    /\ ~edited
    /\ verify_result = <<>>
    /\ \E m \in {[StoredGenerated EXCEPT !.commit_sha = "deadbeef"],
                 [StoredGenerated EXCEPT
                     !.compliance_summary.coverage_percent = 9000],
                 DelKey(StoredGenerated, "compliance_summary"),
                 DelKey(StoredGenerated, "repository")} :
          manifest_dir' = WriteFile(manifest_dir, ManifestPath(BuildId),
                                    JsonFile(m))
    /\ edited' = TRUE
    /\ UNCHANGED <<pipeline_vars, service_vars, generated, saves, verify_result,
                   aux_vars>>

\* main(): the verify command
VerifyManifest ==
    /\ verify_result = <<>>
    /\ verify_result' = verify_manifest(manifest_dir, BuildId)
    /\ UNCHANGED <<pipeline_vars, service_vars, manifest_dir, generated, saves, edited,
                   aux_vars>>

NextGenerator ==
    \/ GenerateManifest
    \/ SaveManifest
    \/ EditStoredManifest
    \/ VerifyManifest

SpecGenerator == Init /\ [][NextGenerator]_vars

-----------------------------------------------------------------------------
(* Hashes of structured records.  A Python dict keeps its items in         *)
(* insertion order and json.dump writes them in that order unless          *)
(* sort_keys is given.                                                     *)

MaxKeys == 2           \* keys of a hashed dict

DictKeys == {"role", "members", "condition"}

DictValues == {1, 2}

\* a dict: its items <<key, value>> in insertion order, the keys distinct
OrderedDicts ==
    {d \in SeqsUpTo(DictKeys \X DictValues, MaxKeys) :
        \A i, j \in 1..Len(d) : d[i][1] = d[j][1] => i = j}

\* d1 == d2 in Python: the same keys with the same values
DictEqual(d1, d2) == Range(d1) = Range(d2)

\* the order of the keys as strings
KeyRank(k) ==
    CASE k = "condition" -> 1
      [] k = "members" -> 2
      [] OTHER -> 3

\* the items by ascending key
SortedItems(d) ==
    [i \in 1..Len(d) |->
        CHOOSE x \in Range(d) :
            Cardinality({y \in Range(d) : KeyRank(y[1]) < KeyRank(x[1])})
                = i - 1]

\* json.dumps(d, sort_keys=...): the text, as the items in the order they
\* are written
json_dumps(d, sort_keys) == IF sort_keys THEN SortedItems(d) ELSE d

\* hashlib.sha256(text).hexdigest()
hexdigest(text) == [sha256 |-> text]

\* the collectors' _generate_hash: json.dumps(data, sort_keys=True)
_generate_hash(data) == hexdigest(json_dumps(data, TRUE))

\* EvidenceManifestGenerator.generate_manifest:
\* json.dumps(manifest, sort_keys=True, indent=2)
manifest_content_hash(m) == hexdigest(json_dumps(m, TRUE))

\* ManifestGenerator.save_manifest: json.dump(manifest, f, indent=2), then
\* the hash of the file
saved_manifest_hash(m) == hexdigest(json_dumps(m, FALSE))

HashFunctions == {"_generate_hash", "generate_manifest", "save_manifest"}

HashOf(function, d) ==
    CASE function = "_generate_hash" -> _generate_hash(d)
      [] function = "generate_manifest" -> manifest_content_hash(d)
      [] OTHER -> saved_manifest_hash(d)

\* two dicts are built
build_records ==
    /\ hashing.records = <<>>
    /\ \E d1, d2 \in OrderedDicts :
          hashing' = [hashing EXCEPT !.records = <<d1, d2>>]
    /\ UNCHANGED <<pipeline_vars, generator_vars, service_vars, scanner,
                   verifying>>

\* one of the hashes is taken of both
hash_records ==
    /\ hashing.records # <<>>
    /\ \E function \in HashFunctions \ DOMAIN hashing.digests :
          hashing' = [hashing EXCEPT !.digests =
                         SetKey(@, function,
                                <<HashOf(function, hashing.records[1]),
                                  HashOf(function, hashing.records[2])>>)]
    /\ UNCHANGED <<pipeline_vars, generator_vars, service_vars, scanner,
                   verifying>>

NextHash ==
    \/ build_records
    \/ hash_records

SpecHash == Init /\ [][NextHash]_vars

-----------------------------------------------------------------------------
(* EvidenceManifestGenerator (evidence-collection/manifest-generator.py)   *)

MaxFiles == 2          \* evidence files of the evidence directory

\* file names of the evidence directory: evidence-<n>.json
EvidenceNames == 1..MaxFiles

\* a file: its bytes and whether open(filepath, "rb") succeeds
EvidenceFiles == [content : Contents, readable : BOOLEAN]

\* the evidence directories: some of the names, each with a file
EvidenceDirs ==
    UNION {[names -> EvidenceFiles] : names \in SUBSET EvidenceNames}

\* return None
None == [none |-> TRUE]

\* _calculate_file_hash: the hex digest, or None when open or read raises
\* (the exception is logged)
_calculate_file_hash(dir, name) ==
    IF name \in DOMAIN dir /\ dir[name].readable
    THEN hexdigest(dir[name].content)
    ELSE None

\* the names of a directory in the order rglob yields them
RECURSIVE Listing(_)
Listing(names) ==
    IF names = {} THEN <<>>
    ELSE LET first == CHOOSE n \in names : \A m \in names : n <= m
         IN  <<first>> \o Listing(names \ {first})

\* scan_evidence_files: one entry per file; the fields verification reads
scan_evidence_files(dir) ==
    LET names == Listing(DOMAIN dir)
    IN  [i \in 1..Len(names) |->
            [file_path |-> names[i],
             file_size_bytes |-> 1,
             sha256_hash |-> _calculate_file_hash(dir, names[i])]]

\* generate_manifest: the fields verify_evidence_integrity and the
\* statistics read
ec_generate_manifest(dir) ==
    LET scanned == scan_evidence_files(dir)
    IN  [manifest_version |-> "1.0",
         total_files |-> Len(scanned),
         files |-> scanned]

\* verify_evidence_integrity: the loop over manifest['files']
RECURSIVE VerifyEntries(_, _, _)
VerifyEntries(entries, dir, results) ==
    IF entries = <<>> THEN results
    ELSE LET file_entry == Head(entries)
             filepath == file_entry.file_path
             expected_hash == file_entry.sha256_hash
             actual_hash == _calculate_file_hash(dir, filepath)
             next ==
                 IF filepath \notin DOMAIN dir
                 THEN [results EXCEPT
                          !.missing_files = @ + 1,
                          !.failures = Append(@, [file |-> filepath,
                                                  reason |-> "File not found"])]
                 ELSE IF actual_hash = expected_hash
                 THEN [results EXCEPT !.verified_files = @ + 1]
                 ELSE [results EXCEPT
                          !.failed_files = @ + 1,
                          !.failures = Append(@, [file |-> filepath,
                                                  reason |-> "Hash mismatch"])]
         IN  VerifyEntries(Tail(entries), dir, next)

verify_evidence_integrity(m, dir) ==
    VerifyEntries(m.files, dir,
                  [total_files |-> Len(m.files), verified_files |-> 0,
                   failed_files |-> 0, missing_files |-> 0,
                   failures |-> <<>>])

\* the collectors have written the evidence directory
collect_evidence ==
    /\ scanner.stage = "empty"
    /\ \E dir \in EvidenceDirs :
          scanner' = [scanner EXCEPT !.stage = "collected", !.dir = dir]
    /\ UNCHANGED <<pipeline_vars, generator_vars, service_vars, hashing,
                   verifying>>

\* run(): generate_manifest and save_manifest
run_generate ==
    /\ scanner.stage = "collected"
    /\ scanner' = [scanner EXCEPT !.stage = "manifest",
                                  !.manifest = ec_generate_manifest(scanner.dir)]
    /\ UNCHANGED <<pipeline_vars, generator_vars, service_vars, hashing,
                   verifying>>

\* between the two runs one file is removed, rewritten, or its permissions
\* are changed
change_evidence ==
    /\ scanner.stage = "manifest"
    /\ \E name \in DOMAIN scanner.dir :
          \/ scanner' = [scanner EXCEPT
                            !.stage = "changed",
                            !.dir = [n \in DOMAIN scanner.dir \ {name} |->
                                        scanner.dir[n]]]
          \/ \E file \in EvidenceFiles \ {scanner.dir[name]} :
                scanner' = [scanner EXCEPT !.stage = "changed",
                                           !.dir[name] = file]
    /\ UNCHANGED <<pipeline_vars, generator_vars, service_vars, hashing,
                   verifying>>

\* run(verify=manifest_file)
run_verify ==
    /\ scanner.stage \in {"manifest", "changed"}
    /\ scanner' = [scanner EXCEPT
                      !.stage = "verified",
                      !.results = verify_evidence_integrity(scanner.manifest,
                                                            scanner.dir)]
    /\ UNCHANGED <<pipeline_vars, generator_vars, service_vars, hashing,
                   verifying>>

NextScan ==
    \/ collect_evidence
    \/ run_generate
    \/ change_evidence
    \/ run_verify

SpecScan == Init /\ [][NextScan]_vars

-----------------------------------------------------------------------------
(* ManifestGenerator.verify_manifest called by several processes on one    *)
(* manifest directory: each file operation of a call is one step           *)

Callers == 1..MaxCallers

\* the manifests a caller has generated and saved, once or twice
StoredDirs ==
    {IF again
     THEN save_manifest(save_manifest(m, NoFiles).manifest,
                        save_manifest(m, NoFiles).dir).dir
     ELSE save_manifest(m, NoFiles).dir :
        m \in {generate_manifest(BuildId, "owner/repo", "c0ffee", files,
                                 practices) :
                  files \in GeneratorEvidence,
                  practices \in {p \in GeneratorClaims : Len(p) <= 1}},
        again \in BOOLEAN}

\* the directory without the file
Unlink(files, name) == [n \in DOMAIN files \ {name} |-> files[n]]

\* FileNotFoundError leaves verify_manifest
VerifyRaised ==
    [raised |-> TRUE, valid |-> FALSE, errors |-> <<>>, warnings |-> <<>>]

\* the result dict of verify_manifest for the manifest it loaded and the
\* hash it calculated (<<>> when the manifest has no manifest_hash)
VerifyResult(m, calculated_hash) ==
    LET errors == MissingFields(manifest_required_fields, m,
                                "Missing required field")
        hash_warnings ==
            IF "manifest_hash" \in DOMAIN m
               /\ calculated_hash # m.manifest_hash
            THEN <<Err("Hash mismatch", "")>> ELSE <<>>
        cs == Get(m, "compliance_summary", EmptyDict)
        low == Get(cs, "coverage_percent", 0) < low_coverage
    IN  IF low /\ ~("compliance_summary" \in DOMAIN m
                    /\ "coverage_percent" \in DOMAIN cs)
        THEN VerifyRaised
        ELSE [raised |-> FALSE, valid |-> Len(errors) = 0,
              errors |-> errors,
              warnings |-> hash_warnings
                  \o (IF low THEN <<Err("Low SSDF coverage", "")>>
                      ELSE <<>>)]

ConcurrentUnchanged ==
    UNCHANGED <<pipeline_vars, generator_vars, service_vars, hashing, scanner>>

\* the manifest directory holds one saved manifest
store_manifest ==
    /\ verifying.dir = NoFiles
    /\ \E dir \in StoredDirs : verifying' = [verifying EXCEPT !.dir = dir]
    /\ ConcurrentUnchanged

\* manifest = self.load_manifest(build_id) and the required-field loop
verify_load(c) ==
    /\ verifying.dir # NoFiles
    /\ verifying.calls[c].pc = "idle"
    /\ LET m == load_manifest(verifying.dir, BuildId)
       IN  verifying' = [verifying EXCEPT
               !.calls[c].manifest = m,
               !.calls[c].pc = IF "manifest_hash" \in DOMAIN m
                               THEN "write" ELSE "coverage"]
    /\ ConcurrentUnchanged

\* with open(temp_path, 'w') as f: json.dump(manifest, ...)
verify_write(c) ==
    /\ verifying.calls[c].pc = "write"
    /\ verifying' = [verifying EXCEPT
           !.dir = WriteFile(@, TempPath(BuildId),
                             JsonFile(DelKey(verifying.calls[c].manifest,
                                             "manifest_hash"))),
           !.calls[c].pc = "hash"]
    /\ ConcurrentUnchanged

\* calculated_hash = self.calculate_file_hash(str(temp_path))
verify_hash(c) ==
    /\ verifying.calls[c].pc = "hash"
    /\ verifying' =
           IF exists(verifying.dir, TempPath(BuildId))
           THEN [verifying EXCEPT
                    !.calls[c].calculated_hash =
                        calculate_hash(verifying.dir[TempPath(BuildId)]),
                    !.calls[c].pc = "unlink"]
           ELSE [verifying EXCEPT !.calls[c].pc = "raised",
                                  !.calls[c].result = VerifyRaised]
    /\ ConcurrentUnchanged

\* temp_path.unlink()
verify_unlink(c) ==
    /\ verifying.calls[c].pc = "unlink"
    /\ verifying' =
           IF exists(verifying.dir, TempPath(BuildId))
           THEN [verifying EXCEPT
                    !.dir = Unlink(@, TempPath(BuildId)),
                    !.calls[c].pc = "coverage"]
           ELSE [verifying EXCEPT !.calls[c].pc = "raised",
                                  !.calls[c].result = VerifyRaised]
    /\ ConcurrentUnchanged

\* the hash comparison, the coverage check and return result
verify_return(c) ==
    /\ verifying.calls[c].pc = "coverage"
    /\ LET out == VerifyResult(verifying.calls[c].manifest,
                               verifying.calls[c].calculated_hash)
       IN  verifying' = [verifying EXCEPT
               !.calls[c].result = out,
               !.calls[c].pc = IF out.raised THEN "raised" ELSE "returned"]
    /\ ConcurrentUnchanged

NextConcurrent ==
    \/ store_manifest
    \/ \E c \in Callers : verify_load(c)
    \/ \E c \in Callers : verify_write(c)
    \/ \E c \in Callers : verify_hash(c)
    \/ \E c \in Callers : verify_unlink(c)
    \/ \E c \in Callers : verify_return(c)

SpecConcurrent == Init /\ [][NextConcurrent]_vars

-----------------------------------------------------------------------------

Next ==
    \/ collect_all
    \/ TamperPackage
    \/ verify_main

Spec == Init /\ [][Next]_vars

\* The collector of a scheduled job: one object, one collect_all per build.
\* The builds publish at most one artifact, a Trivy report or a
\* provenance file, and no SonarQube project key is given.
JobArtifactLists ==
    {arts \in SeqsUpTo(Artifact, 1) :
        \A i \in 1..Len(arts) :
            /\ arts[i].name \in {"trivy-fs-scan.json", "provenance.json"}
            /\ arts[i].content = 1}

job_build_evidence == BuildEvidence(JobArtifactLists)

job_scan_evidence == ScanEvidence({FALSE})

NextRuns ==
    \/ collect_all_start
    \/ collect_all_again
    \/ job_build_evidence
    \/ job_scan_evidence
    \/ collect_sbom_evidence
    \/ collect_attestation_evidence
    \/ create_manifest
    \/ package_evidence
    \/ upload_to_gcs
    \/ register_evidence

SpecRuns == Init /\ [][NextRuns]_vars

-----------------------------------------------------------------------------
(* Properties *)

\* the verifier configuration gives every setting the checks read
CompleteConfig(cfg) ==
    {"minimum_coverage", "required_practices", "verify_signatures"}
        \subseteq DOMAIN cfg.verification

\* positions in result.errors of the file-hash errors that name a file
ErrorsNaming(name) ==
    {i \in 1..Len(result.errors) :
        /\ result.errors[i].name = name
        /\ result.errors[i].kind \in {"File not found", "Hash mismatch"}}

ErrorKinds == {result.errors[i].kind : i \in 1..Len(result.errors)}

WarningKinds == {result.warnings[i].kind : i \in 1..Len(result.warnings)}

CheckRan(name) ==
    \E i \in 1..Len(result.checks_performed) :
        result.checks_performed[i].name = name

\* coverage computed from the run's practice claims
LedgerCoverage ==
    coverage_percent(Cardinality(PracticeSet(practices_covered)),
                     total_practices)

\* C1: round trip.  Verifying the untampered uploaded archive of a collection
\* run returns valid = true, no errors and the coverage_percent computed from
\* the run's claims.  Stated for the runs the verification policy accepts
\* (complete configuration, coverage at or above the minimum, every required
\* practice claimed, no attestation to check).
C1_RoundTrip ==
    (/\ vpc # "none"
     /\ gcs # <<>>
     /\ tamper.kind = "none"
     /\ CompleteConfig(config)
     /\ LedgerCoverage >= config.verification.minimum_coverage
     /\ Range(config.verification.required_practices)
            \subseteq PracticeSet(practices_covered)
     /\ attestations = <<>>)
    => /\ vpc = "returned"
       /\ result.valid
       /\ result.errors = <<>>
       /\ result.coverage_percent = LedgerCoverage

\* C2: the file-hash check reports exactly one error for each file named by
\* the manifest that is missing or differs from a recorded hash and none for
\* a file that matches; after one artifact of the package was altered there
\* is exactly one such error naming that file and valid is false.
C2_OneErrorPerFile ==
    (vpc = "returned" /\ CheckRan("File Hash Verification")) =>
        LET entries == Get(StoredManifest, "evidence_files", <<>>)
            dir == ExtractedFiles(
                       extract_package(
                           gcs[1],
                           download_from_gcs(gcs, NoTempDir,
                                             MainVerifier).temp_dir,
                           MainVerifier).temp_dir)
            differs(f) ==
                \/ ~exists(dir, f)
                \/ \E i \in 1..Len(entries) :
                      /\ entries[i].filename = f
                      /\ entries[i].hash # calculate_hash(dir[f])
        IN  /\ \A i \in 1..Len(entries) :
                  Cardinality(ErrorsNaming(entries[i].filename))
                      = IF differs(entries[i].filename) THEN 1 ELSE 0
            /\ tamper.kind = "artifact" =>
                  /\ Cardinality(ErrorsNaming(tamper.name)) = 1
                  /\ ~result.valid

\* C3: after compliance_summary.coverage_percent of the packaged manifest was
\* changed and manifest_hash was not, verification reports an error and
\* returns valid = false.
C3_ManifestSelfHash ==
    (vpc = "returned" /\ tamper.kind = "coverage") =>
        /\ ~result.valid
        /\ result.errors # <<>>

\* C4: every VerificationResult verify_evidence_package returns, the early
\* returns included, has valid = true exactly when errors is empty; warnings
\* do not enter.
C4_ValidIffNoErrors ==
    vpc = "returned" => (result.valid <=> result.errors = <<>>)

\* C4 witness: a result returned valid with warnings in it
C4_ValidWithWarnings ==
    /\ vpc = "returned"
    /\ result.valid
    /\ result.warnings # <<>>
    /\ result.errors = <<>>

FourChecks == <<"Manifest Integrity", "File Hash Verification",
                "SSDF Coverage", "Signature Verification">>

\* C5: for every package that extracts and holds a manifest.json, whatever
\* the manifest's content, verify_evidence_package returns a result whose
\* checks_performed holds the four checks once each, in order, and valid is
\* false when one of them failed.  Stated for complete configurations.
C5_AllChecksRun ==
    (/\ vpc # "none"
     /\ gcs # <<>>
     /\ gcs[1].ok
     /\ exists(gcs[1].tar, ManifestFile)
     /\ CompleteConfig(config))
    => /\ vpc = "returned"
       /\ LET four == SelectSeq(result.checks_performed,
                                LAMBDA c : c.name \in Range(FourChecks))
          IN  /\ [i \in 1..Len(four) |-> four[i].name] = FourChecks
              /\ (\E i \in 1..Len(four) : four[i].status = "failed")
                     => ~result.valid

\* C6: the coverage_percent the verifier reports and compares with the
\* minimum is the one recomputed from the distinct practices of the
\* manifest's claims, whatever compliance_summary says.
C6_CoverageRecomputed ==
    (vpc = "returned" /\ CheckRan("SSDF Coverage")) =>
        LET claims == Get(StoredManifest, "ssdf_practices_covered", <<>>)
            recomputed == coverage_percent(Cardinality(PracticeSet(claims)),
                                           total_practices)
        IN  /\ result.coverage_percent = recomputed
            /\ ("Coverage below minimum" \in ErrorKinds)
                   <=> recomputed < config.verification.minimum_coverage

\* C7: when the manifest's coverage is below the configured minimum or a
\* configured required practice has no claim, the verification returns with
\* a coverage error and valid = false; when only high-priority practices
\* outside the required set are missing it returns with the warning and no
\* coverage error.  The configured values are those of the configuration
\* file, the defaults where the file is silent; coverage is the figure the
\* manifest carries.
C7_CoverageErrorOrWarning ==
    (/\ vpc # "none"
     /\ gcs # <<>>
     /\ tamper.kind \in {"none", "coverage"})
    => LET v == config.verification
           minimum == Get(v, "minimum_coverage",
                          default_config.verification.minimum_coverage)
           required == Get(v, "required_practices",
                           default_config.verification.required_practices)
           covered == PracticeSet(StoredManifest.ssdf_practices_covered)
           coverage == StoredManifest.compliance_summary.coverage_percent
           must_fail == \/ coverage < minimum
                        \/ Range(required) \ covered # {}
           coverage_errors ==
               ErrorKinds \cap {"Coverage below minimum",
                                "Missing required practices"}
       IN  /\ must_fail =>
                 /\ vpc = "returned"
                 /\ coverage_errors # {}
                 /\ ~result.valid
           /\ (~must_fail /\ high_priority \ covered # {}) =>
                 /\ vpc = "returned"
                 /\ coverage_errors = {}
                 /\ "Missing high-priority practices" \in WarningKinds

\* C8: closure.  The archive package_evidence wrote holds, besides
\* manifest.json, exactly the files the manifest's artifact entries name.
C8_ArchiveClosure ==
    pc = "upload" =>
        LET tar == temp_dir.files[PackageName].tar
            named == {manifest.evidence_files[i].filename :
                         i \in 1..Len(manifest.evidence_files)}
        IN  DOMAIN tar \ {ManifestFile} = named \ {ManifestFile}

\* C9: for a manifest stored by save_manifest and not changed since, the
\* hash recomputed over all fields but manifest_hash equals the stored
\* manifest_hash; after a change to another field it differs.
C9_HashOverOtherFields ==
    (/\ exists(manifest_dir, ManifestPath(BuildId))
     /\ "manifest_hash" \in DOMAIN StoredGenerated)
    => LET recomputed ==
               calculate_hash(JsonFile(DelKey(StoredGenerated,
                                              "manifest_hash")))
       IN  IF edited THEN recomputed # StoredGenerated.manifest_hash
           ELSE recomputed = StoredGenerated.manifest_hash

\* C10: when the archive is packaged, every artifact entry of the manifest
\* names a file of the working directory whose hash and size are the
\* recorded ones.
C10_RecordedFilesIntact ==
    pc = "upload" =>
        \A i \in 1..Len(manifest.evidence_files) :
            LET e == manifest.evidence_files[i] IN
            /\ exists(temp_dir.files, e.filename)
            /\ calculate_hash(temp_dir.files[e.filename]) = e.hash
            /\ getsize(temp_dir.files[e.filename]) = e.size

\* C11: the filenames of the artifact entries of a manifest are pairwise
\* distinct; the collector does not record a file under a name the ledger
\* already holds.
C11_UniqueFilenames ==
    manifest # <<>> =>
        \A i, j \in 1..Len(manifest.evidence_files) :
            manifest.evidence_files[i].filename
                = manifest.evidence_files[j].filename
            => i = j

\* every coverage claim of the manifest dict m names, as its evidence, the
\* filename of one of m's artifact entries
NoDanglingClaims(m) ==
    \A i \in 1..Len(m.ssdf_practices_covered) :
        \E j \in 1..Len(m.evidence_files) :
            m.evidence_files[j].filename
                = m.ssdf_practices_covered[i].evidence

\* C12: a manifest has no dangling references: the evidence filename of each
\* coverage claim is the filename of an artifact entry of the same manifest,
\* a claim naming a file that was not added being rejected.
C12_NoDanglingReferences == generated # <<>> => NoDanglingClaims(generated)

\* C13: a builder counts the distinct practice ids of the claims and records
\* coverage_percent as that count over the size of the practice catalog,
\* times 100, rounded to 2 decimals, and total_practices as the size of the
\* catalog.
C13_CoverageOverCatalog ==
    manifest # <<>> =>
        LET summary == manifest.compliance_summary
            covered == Cardinality(PracticeSet(manifest.ssdf_practices_covered))
        IN  /\ summary.practices_covered = covered
            /\ summary.total_practices = Cardinality(ssdf_practices)
            /\ summary.coverage_percent
                  = coverage_percent(covered, Cardinality(ssdf_practices))

\* C18: the manifest-parse check reports one missing-field error for each
\* required top-level field the manifest lacks, manifest_hash being one of
\* the required fields: after a field was removed from the stored manifest
\* the integrity check fails with exactly one missing-field error naming it.
C18_MissingFieldReported ==
    (vpc = "returned" /\ tamper.kind = "field") =>
        /\ Check("Manifest Integrity", "failed")
               \in Range(result.checks_performed)
        /\ Cardinality({i \in 1..Len(result.errors) :
                            result.errors[i]
                                = Err("Missing required field", tamper.name)})
               = 1
        /\ ~result.valid

\* the checks that follow the extraction of the package
ManifestChecks ==
    {"Manifest Discovery", "Manifest Integrity", "File Hash Verification",
     "SSDF Coverage", "Signature Verification"}

\* C17: when the package cannot be fetched or extracted (the download
\* fails, no package file is given, or the extraction fails) the
\* verification returns at once: valid is false, errors has exactly one
\* entry, and checks_performed has no manifest, hash, coverage or signature
\* entry.
C17_FetchFailureReturnsAtOnce ==
    (vpc # "none" /\ (gcs = <<>> \/ ~gcs[1].ok)) =>
        /\ vpc = "returned"
        /\ ~result.valid
        /\ Len(result.errors) = 1
        /\ result.errors[1].kind
              \in IF gcs = <<>>
                  THEN {"Failed to download from GCS",
                        "No valid package file provided"}
                  ELSE {"Failed to extract package"}
        /\ \A i \in 1..Len(result.checks_performed) :
              result.checks_performed[i].name \notin ManifestChecks

\* the verification of a stored package that is not a readable archive
C17_ExtractionFailed ==
    /\ vpc = "returned"
    /\ gcs # <<>>
    /\ ~gcs[1].ok
    /\ result.errors = <<Err("Failed to extract package", "")>>

\* the errors verify_signatures can add
SignatureErrorKinds ==
    {"Attestation file not found", "Signature file not found",
     "Signature verification failed"}

\* the signature check ran on the stored manifest with signature
\* verification enabled
SignaturesVerified ==
    /\ vpc = "returned"
    /\ CheckRan("Signature Verification")
    /\ config.verification.verify_signatures

\* C19: with signature verification enabled, a manifest without
\* attestations gives a warning and no error, an attestation whose signature
\* is 'none' gives a warning and no error, and an attestation that names a
\* signature file gives an error and valid = false when the attestation file
\* or the signature file is absent from the package or the signature check
\* reports false.
C19_SignatureOutcomes ==
    SignaturesVerified =>
        LET atts == Get(StoredManifest, "attestations", <<>>)
            dir == gcs[1].tar
            errors == Range(result.errors)
            warnings == Range(result.warnings)
        IN  /\ atts = <<>> =>
                  /\ Err("No attestations found in manifest", "") \in warnings
                  /\ ErrorKinds \cap SignatureErrorKinds = {}
                  /\ Check("Signature Verification", "passed")
                         \in Range(result.checks_performed)
            /\ \A i \in 1..Len(atts) :
                  LET a == atts[i] IN
                  IF a.signature = "none"
                  THEN /\ Err("No signature for attestation", a.file)
                              \in warnings
                       /\ \A k \in SignatureErrorKinds :
                              Err(k, a.file) \notin errors
                  ELSE /\ ~exists(dir, a.file) =>
                              Err("Attestation file not found", a.file)
                                  \in errors
                       /\ (exists(dir, a.file) /\ ~exists(dir, a.signature)) =>
                              Err("Signature file not found", a.signature)
                                  \in errors
                       /\ (exists(dir, a.file) /\ exists(dir, a.signature)
                           /\ cosign_state = "error") =>
                              Err("Signature verification failed", a.file)
                                  \in errors
                       /\ (\/ ~exists(dir, a.file)
                           \/ ~exists(dir, a.signature)
                           \/ cosign_state = "error") =>
                              /\ ~result.valid
                              /\ Check("Signature Verification", "failed")
                                     \in Range(result.checks_performed)

\* a signed attestation whose signature check reported false
C19_SignatureCheckFailed ==
    /\ SignaturesVerified
    /\ cosign_state = "error"
    /\ Err("Signature verification failed", "provenance.json")
           \in Range(result.errors)
    /\ ~result.valid

\* C20: when cosign is unavailable, the signature check of an attestation
\* that has a signature file is downgraded to a warning recorded in the
\* warnings of the result, and no error is added for it.
C20_CosignUnavailableWarns ==
    (SignaturesVerified /\ cosign_state = "absent") =>
        LET atts == Get(StoredManifest, "attestations", <<>>)
            dir == gcs[1].tar
        IN  \A i \in 1..Len(atts) :
                LET a == atts[i] IN
                (/\ a.signature # "none"
                 /\ exists(dir, a.file)
                 /\ exists(dir, a.signature)) =>
                    /\ Err("Signature verification failed", a.file)
                           \notin Range(result.errors)
                    /\ \E w \in Range(result.warnings) :
                           w.name \in {a.file, a.signature}

\* C14: the manifest a collect_all call builds contains only the artifact
\* entries, coverage claims and attestations gathered during that call,
\* whatever the same collector object did in earlier calls.
C14_LedgerScopedToRun ==
    pc = "package" =>
        LET start == runs[Len(runs)]
            gathered(list, from) == SubSeq(list, from + 1, Len(list))
        IN  /\ manifest.evidence_files
                  = gathered(evidence_files, start.evidence_files)
            /\ manifest.ssdf_practices_covered
                  = gathered(practices_covered, start.practices_covered)
            /\ manifest.attestations
                  = gathered(attestations, start.attestations)

\* what a verifier that has verified nothing returns for the archive of a
\* call
FreshOutcome(call) ==
    verify_evidence_package(TRUE, call.archive.bucket, <<>>, config,
                            cosign_state, NoTempDir, call.verifier)

\* C15: the result of verify_evidence_package for an archive does not
\* depend on the archives the same EvidenceVerifier verified before: it is
\* the result a verifier gives that has verified nothing.
C15_NoLeakAcrossCalls ==
    \A i \in 1..Len(calls) :
        /\ calls[i].raised = FreshOutcome(calls[i]).raised
        /\ calls[i].result = FreshOutcome(calls[i]).result

\* C16: verifying the same untampered archive twice, by one verifier or by
\* two, gives results equal in every field, the entries of
\* checks_performed included (the model's results carry no timestamp).
C16_Idempotent ==
    \A i, j \in 1..Len(calls) :
        (calls[i].archive = calls[j].archive /\ calls[i].archive.untampered)
        => /\ calls[i].raised = calls[j].raised
           /\ calls[i].result = calls[j].result

\* the hash verify_manifest recomputes for the stored manifest differs from
\* the manifest_hash the file carries
StoredHashDiffers ==
    /\ exists(manifest_dir, ManifestPath(BuildId))
    /\ "manifest_hash" \in DOMAIN StoredGenerated
    /\ calculate_hash(JsonFile(DelKey(StoredGenerated, "manifest_hash")))
           # StoredGenerated.manifest_hash

\* C21: when verify_manifest recomputes the manifest hash and it differs
\* from the stored manifest_hash, the result it returns has valid = false
\* and reports the mismatch among its errors.
C21_HashMismatchInvalid ==
    (verify_result # <<>> /\ ~verify_result.raised /\ StoredHashDiffers) =>
        /\ ~verify_result.valid
        /\ Err("Hash mismatch", "") \in Range(verify_result.errors)

\* C22: every structured-record hash of the pipeline (the collectors'
\* evidence-data hash, the manifest_hash of each manifest builder) is the
\* same for two records with equal keys and values built with different key
\* insertion orders.
C22_HashIgnoresKeyOrder ==
    (hashing.records # <<>>
     /\ DictEqual(hashing.records[1], hashing.records[2])) =>
        \A function \in DOMAIN hashing.digests :
            hashing.digests[function][1] = hashing.digests[function][2]

\* C23: a file whose hash cannot be computed aborts the operation:
\* manifest generation records no artifact entry without a real digest, and
\* integrity verification counts as verified only files whose hash was
\* computed and equals the recorded one.
C23_HashFailureAborts ==
    /\ scanner.stage # "empty" /\ scanner.stage # "collected" =>
          \A i \in 1..Len(scanner.manifest.files) :
              scanner.manifest.files[i].sha256_hash # None
    /\ scanner.stage = "verified" =>
          scanner.results.verified_files
              = Cardinality(
                    {i \in 1..Len(scanner.manifest.files) :
                        LET f == scanner.manifest.files[i].file_path
                        IN  /\ f \in DOMAIN scanner.dir
                            /\ scanner.dir[f].readable
                            /\ hexdigest(scanner.dir[f].content)
                                   = scanner.manifest.files[i].sha256_hash})

\* C24: when a verification run (main) or a collection run (collect_all) has
\* ended, by success, failed validation or an exception, the scratch
\* directory that run created no longer exists.
C24_ScratchRemoved ==
    /\ vpc \in {"returned", "raised"} => ~verifiers[MainVerifier].exists
    /\ pc \in {"done", "failed"} => ~temp_dir.exists

\* C24 witness: a verification run that raised after it had made its
\* scratch directory, and a collection run that has ended; neither
\* directory exists any more
C24_RaisedRunCleaned ==
    /\ vpc = "raised"
    /\ verifiers[MainVerifier].path # 0
    /\ ~verifiers[MainVerifier].exists
    /\ ~temp_dir.exists

\* C25: each of two interleaved verify_manifest calls on the same stored
\* manifest ends as it would alone: it does not raise because of the other
\* call and returns the result of an undisturbed call.
C25_InterleavedCallsIndependent ==
    \A c \in Callers :
        verifying.calls[c].pc \in {"returned", "raised"} =>
            verifying.calls[c].result
                = verify_manifest(
                      [n \in {ManifestPath(BuildId)} |-> verifying.dir[n]],
                      BuildId)

\* C26: a collection run with no artifacts and no claims builds a manifest
\* with practices_covered = 0 and coverage_percent = 0.0; verifying its
\* package returns a result with a coverage error whenever the configured
\* minimum coverage (the default where the file is silent) is above 0 or a
\* practice is required.
C26_EmptyRunFailsCoverage ==
    (pc \in {"package", "upload", "register", "done"}
     /\ practices_covered = <<>> /\ evidence_files = <<>>) =>
        /\ manifest.compliance_summary.practices_covered = 0
        /\ manifest.compliance_summary.coverage_percent = 0
        /\ (vpc # "none" /\ gcs # <<>> /\ gcs[1].ok /\ tamper.kind = "none") =>
              LET v == config.verification
                  minimum == Get(v, "minimum_coverage",
                                 default_config.verification.minimum_coverage)
                  required == Get(v, "required_practices",
                                  default_config.verification
                                      .required_practices)
              IN  (minimum > 0 \/ required # <<>>) =>
                      /\ vpc = "returned"
                      /\ ErrorKinds \cap {"Coverage below minimum",
                                          "Missing required practices"} # {}

\* the required fields the stored manifest lacks
AbsentFields ==
    {f \in Range(manifest_required_fields) : f \notin DOMAIN StoredGenerated}

\* C27: verify_manifest on a stored manifest that lacks required fields
\* (compliance_summary included) does not raise: it returns valid = false
\* with exactly one 'Missing required field' error for each absent field,
\* after the hash and coverage checks.
C27_MissingFieldsReported ==
    (/\ verify_result # <<>>
     /\ exists(manifest_dir, ManifestPath(BuildId))
     /\ AbsentFields # {})
    => /\ ~verify_result.raised
       /\ ~verify_result.valid
       /\ \A f \in AbsentFields :
             Cardinality({i \in 1..Len(verify_result.errors) :
                             verify_result.errors[i]
                                 = Err("Missing required field", f)}) = 1
       /\ Len(verify_result.errors) = Cardinality(AbsentFields)

\* C28: in every manifest generate_manifest builds, whatever the claims
\* (ids outside the catalog included), practices_covered is at most
\* total_practices, practices_covered plus the number of missing_practices
\* is total_practices, and coverage_percent lies between 0 and 100.
C28_SummaryConsistent ==
    generated # <<>> =>
        LET summary == generated.compliance_summary
        IN  /\ summary.practices_covered <= summary.total_practices
            /\ summary.practices_covered
                   + Cardinality(summary.missing_practices)
                   = summary.total_practices
            /\ summary.coverage_percent \in 0..10000

\* C29: a configuration file that gives only some verification settings
\* leaves the others at their defaults, and verify_evidence_package on an
\* intact uploaded package still runs the four checks and returns a result.
C29_PartialConfigKeepsDefaults ==
    vpc # "none" =>
        /\ DOMAIN default_config.verification \subseteq DOMAIN config.verification
        /\ (gcs # <<>> /\ gcs[1].ok /\ tamper.kind = "none") =>
              /\ vpc = "returned"
              /\ \A name \in Range(FourChecks) : CheckRan(name)

\* C30: after save_manifest was called one or more times on the same
\* manifest dict, verify_manifest on the stored file recomputes a hash equal
\* to the stored manifest_hash: it returns without a hash-mismatch warning.
C30_SavedManifestVerifies ==
    (saves >= 1 /\ ~edited) =>
        LET out == verify_manifest(manifest_dir, BuildId)
        IN  /\ ~out.raised
            /\ Err("Hash mismatch", "") \notin Range(out.warnings)

====
